---------------------------- MODULE Spec2Model ----------------------------
(***************************************************************************)
(* Model of decklist_audit.py (EDHREC Auditor v1.4.3): the name            *)
(* normalizer, the EDHREC lookup key, the cached Scryfall image client,    *)
(* the missing / matches / unique reconciliation and the script run that   *)
(* ties them together.                                                     *)
(*                                                                         *)
(* Python strings that the code inspects character by character are        *)
(* sequences of one-character strings; category headers, which the code    *)
(* only tests for membership, are plain strings.                           *)
(***************************************************************************)
EXTENDS Integers, Sequences, FiniteSets, TLC

VARIABLES
    parts,          \* normalizer input, as the pieces the raw line is made of
    line,           \* normalizer input: the raw line
    cleaned,        \* clean_card_name(line)
    normDone,       \* clean_card_name has returned
    commander_name, \* get_edhrec_data argument (key derivation only)
    name,           \* the lookup key built at line 36
    keyDone,        \* line 36 has run
    cache,          \* st.cache_data store of get_scryfall_image
    now,            \* wall clock, seconds
    ticks,          \* number of clock advances so far
    calls,          \* get_scryfall_image calls so far
    netCalls,       \* requests.get calls issued to Scryfall
    sleeps,         \* time.sleep(0.1) calls
    last,           \* the most recent get_scryfall_image call and its outcome
    requested,      \* per card name: when it was last asked for and last fetched
    commander,      \* sidebar text input
    decklist_raw,   \* sidebar text area
    user_deck,      \* line 80
    pc,             \* position of the script run
    resp,           \* the EDHREC HTTP exchange of this run
    data,           \* line 88
    cardlists,      \* line 93
    edhrec_names,   \* line 94
    idx,            \* loop position in `for cl in cardlists`
    shown,          \* tab1 output: the "Missing ..." expanders, in order
    all_missing,    \* line 106 / 113
    grid,           \* card_list still to be drawn by display_card_grid
    after,          \* where the run continues after display_card_grid
    matches,        \* line 128
    unique,         \* line 129
    score,          \* the Match Score metric, in tenths of a percent
    message,        \* st.info / st.error shown by the run
    imageCalls      \* get_scryfall_image calls made by this run

normVars  == <<parts, line, cleaned, normDone>>
keyVars   == <<commander_name, name, keyDone>>
cacheVars == <<cache, now, ticks, calls, netCalls, sleeps, last, requested>>
runVars   == <<commander, decklist_raw, user_deck, pc, resp, data, cardlists,
               edhrec_names, idx, shown, all_missing, grid, after, matches,
               unique, score, message, imageCalls>>
vars      == <<normVars, keyVars, cacheVars, runVars>>

-----------------------------------------------------------------------------
(* Characters and strings *)

\* The characters the model uses, in code point order (Python compares str
\* by code point).
Chars ==
    << "\t", "\n", " ", "'", "(", ")", "*", ",", "-",
       "0", "1", "2", "3", "6",
       "A", "C", "F", "M", "P", "R", "S", "T", "V",
       "a", "c", "d", "e", "f", "g", "i", "l", "m", "n", "o", "p", "r", "s",
       "t", "v", "w", "x", "y" >>

Ord(c) == CHOOSE i \in 1..Len(Chars) : Chars[i] = c

Digits     == {"0", "1", "2", "3", "6"}
Whitespace == {" ", "\t", "\n"}
Upper      == {"A", "C", "F", "M", "P", "R", "S", "T", "V"}
Lower      == {"a", "c", "d", "e", "f", "g", "i", "l", "m", "n", "o", "p",
               "r", "s", "t", "v", "w", "x", "y"}

\* str.lower() on one character
LowerChar(c) ==
    CASE c = "A" -> "a" [] c = "C" -> "c" [] c = "F" -> "f" [] c = "M" -> "m"
      [] c = "P" -> "p" [] c = "R" -> "r" [] c = "S" -> "s" [] c = "T" -> "t"
      [] c = "V" -> "v" [] OTHER -> c

RangeOf(s) == {s[i] : i \in 1..Len(s)}

Drop(s, n) == SubSeq(s, n + 1, Len(s))
Take(s, n) == SubSeq(s, 1, n)

\* str.strip()
LStrip(s) ==
    LET k == CHOOSE k \in 0..Len(s) :
                 /\ \A i \in 1..k : s[i] \in Whitespace
                 /\ (k < Len(s) => s[k + 1] \notin Whitespace)
    IN  Drop(s, k)

RStrip(s) ==
    LET k == CHOOSE k \in 0..Len(s) :
                 /\ \A i \in (k + 1)..Len(s) : s[i] \in Whitespace
                 /\ (k > 0 => s[k] \notin Whitespace)
    IN  Take(s, k)

Strip(s) == RStrip(LStrip(s))

\* s < t for Python str
RECURSIVE StrLess(_, _)
StrLess(s, t) ==
    IF t = <<>> THEN FALSE
    ELSE IF s = <<>> THEN TRUE
    ELSE IF Head(s) = Head(t) THEN StrLess(Tail(s), Tail(t))
    ELSE Ord(Head(s)) < Ord(Head(t))

\* sorted(list of str): insertion into an ascending list, stable
RECURSIVE Insert(_, _)
Insert(x, s) ==
    IF s = <<>> THEN <<x>>
    ELSE IF StrLess(x, Head(s)) THEN <<x>> \o s
    ELSE <<Head(s)>> \o Insert(x, Tail(s))

RECURSIVE Sorted(_)
Sorted(s) == IF s = <<>> THEN <<>> ELSE Insert(s[Len(s)], Sorted(Take(s, Len(s) - 1)))

-----------------------------------------------------------------------------
(* Name normalizer: clean_card_name *)

\* Length of the match of ^\d+x?\s+ at the start of s, 0 when it does not match.
QuantityMatch(s) ==
    LET d == CHOOSE d \in 0..Len(s) :
                 /\ \A i \in 1..d : s[i] \in Digits
                 /\ (d < Len(s) => s[d + 1] \notin Digits)
        x == IF d < Len(s) /\ s[d + 1] = "x" THEN 1 ELSE 0
        w == CHOOSE w \in 0..(Len(s) - d - x) :
                 /\ \A i \in 1..w : s[d + x + i] \in Whitespace
                 /\ (d + x + w < Len(s) => s[d + x + w + 1] \notin Whitespace)
    IN  IF d >= 1 /\ w >= 1 THEN d + x + w ELSE 0

\* re.sub(r'^\d+x?\s+', '', s)
SubQuantity(s) == Drop(s, QuantityMatch(s))

\* Start of the leftmost match of \s*\([^)]*\).*$ in s, 0 when there is none:
\* a position p from which whitespace only leads to a "(" that has a ")"
\* somewhere after it.
ParenMatchAt(s, p) ==
    \E q \in p..Len(s) :
        /\ s[q] = "("
        /\ \A i \in p..(q - 1) : s[i] \in Whitespace
        /\ \E r \in (q + 1)..Len(s) : s[r] = ")"

ParenMatchStart(s) ==
    IF \E p \in 1..Len(s) : ParenMatchAt(s, p)
    THEN CHOOSE p \in 1..Len(s) :
             ParenMatchAt(s, p) /\ \A p2 \in 1..(p - 1) : ~ParenMatchAt(s, p2)
    ELSE 0

\* re.sub(r'\s*\([^)]*\).*$', '', s): the match runs to the end of the line
SubParen(s) ==
    IF ParenMatchStart(s) = 0 THEN s ELSE Take(s, ParenMatchStart(s) - 1)

clean_card_name(l) == Strip(SubParen(Strip(SubQuantity(l))))

\* Card names
SolRing      == <<"S", "o", "l", " ", "R", "i", "n", "g">>
ArcaneSignet == <<"A", "r", "c", "a", "n", "e", " ", "S", "i", "g", "n", "e", "t">>
CommandTower == <<"C", "o", "m", "m", "a", "n", "d", " ", "T", "o", "w", "e", "r">>
ManaCrypt    == <<"M", "a", "n", "a", " ", "C", "r", "y", "p", "t">>

\* The pieces raw lines are made of
LeadPieces == { <<>>, <<" ">>, <<" ", " ">> }
QtyPieces  == { <<>>, <<"2", "x", " ">>, <<"1", " ">>, <<"1", "0", " ", " ">>,
                <<"3", "x", "\t">> }
NamePieces == { SolRing, ArcaneSignet, CommandTower }
TailPieces == { <<>>,
                <<" ", "(", "C", "1", "6", ")">>,
                <<" ", "(", "C", "M", "R", ")", " ", "*", "F", "*">>,
                <<"(", "M", "2", "1", ")", " ", "1", "2", "3">> }

NotYet == <<"?">>

NormInit ==
    /\ parts \in [lead : LeadPieces, qty : QtyPieces, card : NamePieces,
                  tail : TailPieces]
    /\ line = parts.lead \o parts.qty \o parts.card \o parts.tail
    /\ cleaned = NotYet
    /\ normDone = FALSE

CleanCardName ==
    /\ ~normDone
    /\ cleaned' = clean_card_name(line)
    /\ normDone' = TRUE
    /\ UNCHANGED <<parts, line>>

-----------------------------------------------------------------------------
(* Recommendation client: the lookup key of get_edhrec_data (line 36) *)

\* commander_name.lower()
LowerStr(s) == [i \in 1..Len(s) |-> LowerChar(s[i])]

KeyKeep(c) == c \in Lower \/ c \in Digits \/ c \in Whitespace \/ c = "-"

\* re.sub(r'[^a-z0-9\s-]', '', s)
SubNonKey(s) == SelectSeq(s, KeyKeep)

\* str.replace(" ", "-"): every space character, one by one
ReplaceSpace(s) == [i \in 1..Len(s) |-> IF s[i] = " " THEN "-" ELSE s[i]]

EdhrecKey(s) == ReplaceSpace(SubNonKey(LowerStr(s)))

MaxNameLen == 3

KeyAlphabet == {"A", "a", "1", " ", "\t", "-", ",", "'"}

RECURSIVE StringsUpTo(_, _)
StringsUpTo(A, n) ==
    IF n = 0 THEN { <<>> }
    ELSE LET shorter == StringsUpTo(A, n - 1)
         IN  shorter \cup { Append(s, c) : s \in shorter, c \in A }

KeyInit ==
    /\ commander_name \in StringsUpTo(KeyAlphabet, MaxNameLen)
    /\ name = NotYet
    /\ keyDone = FALSE

BuildKey ==
    /\ ~keyDone
    /\ name' = EdhrecKey(commander_name)
    /\ keyDone' = TRUE
    /\ UNCHANGED commander_name

-----------------------------------------------------------------------------
(* Card metadata client: get_scryfall_image under st.cache_data(ttl=3600) *)

TTL == 3600

Sentinel == "https://errors.scryfall.com/unknown.jpg"
None     == "None"
NormalUrl == "normal.jpg"
FaceUrl   == "face0.jpg"

NotJson == [not_json |-> TRUE]

\* JSON bodies Scryfall can answer with
ScryfallBodies ==
    { [image_uris |-> [normal |-> NormalUrl]],
      [image_uris |-> [small |-> "small.jpg"]],
      [card_faces |-> << [image_uris |-> [normal |-> FaceUrl]] >>],
      [card_faces |-> << >>],
      [card_faces |-> << [name |-> "front"] >>],
      [object |-> "error"],
      NotJson }

\* What requests.get does: raise (timeout, connection error) or answer
ScryfallResponses ==
    { [kind |-> "error", status |-> 0, body |-> NotJson] }
      \cup [kind : {"http"}, status : {200, 404}, body : ScryfallBodies]

Return(v) == [raised |-> FALSE, value |-> v]
Raise     == [raised |-> TRUE, value |-> None]

\* data[k][...] lookups of lines 28 and 30: a missing key or index raises
FaceImage(d) ==
    IF /\ Len(d.card_faces) >= 1
       /\ "image_uris" \in DOMAIN d.card_faces[1]
       /\ "normal" \in DOMAIN d.card_faces[1].image_uris
    THEN Return(d.card_faces[1].image_uris.normal)
    ELSE Raise

\* the try block, lines 24-31
ScryfallTry(r) ==
    IF r.kind = "error" THEN Raise
    ELSE IF r.status = 200
         THEN IF r.body = NotJson THEN Raise
              ELSE IF "image_uris" \in DOMAIN r.body
                   THEN IF "normal" \in DOMAIN r.body.image_uris
                        THEN Return(r.body.image_uris.normal)
                        ELSE Raise
                   ELSE IF "card_faces" \in DOMAIN r.body
                        THEN FaceImage(r.body)
                        ELSE Return(Sentinel)
         ELSE Return(Sentinel)


\* ScryfallFetch without the except clause
ScryfallFetchNoExcept(r) == ScryfallTry(r)

\* the function body, lines 21-33: the bare except returns None
ScryfallFetch(r) ==
    IF ScryfallTry(r).raised THEN Return(None) ELSE ScryfallTry(r)

\* st.cache_data: an entry answers a call while it is younger than the ttl
CacheHit(c, cch, t) == c \in DOMAIN cch /\ t < cch[c].at + TTL


\* CacheStore that keeps only results other than None
CacheStoreSkipsNone(c, v, cch, t) ==
    IF v = None THEN cch
    ELSE [n \in DOMAIN cch \cup {c} |-> IF n = c THEN [value |-> v, at |-> t] ELSE cch[n]]

\* st.cache_data: every value the function returns is stored, keyed by argument
CacheStore(c, v, cch, t) ==
    [n \in DOMAIN cch \cup {c} |-> IF n = c THEN [value |-> v, at |-> t] ELSE cch[n]]

NoCall == [card |-> <<>>, result |-> None, hit |-> FALSE, raised |-> FALSE,
           resp |-> [kind |-> "none", status |-> 0, body |-> NotJson]]

Note(c, v, t, fetched) ==
    [n \in DOMAIN requested \cup {c} |->
        IF n = c
        THEN [at |-> t, result |-> v,
              fetchedAt |-> IF fetched \/ c \notin DOMAIN requested THEN t
                            ELSE requested[c].fetchedAt]
        ELSE requested[n]]

\* One call get_scryfall_image(c) answered, on a miss, by response r
Call(c, r) ==
    /\ calls' = calls + 1
    /\ IF CacheHit(c, cache, now)
       THEN /\ last' = [card |-> c, result |-> cache[c].value, hit |-> TRUE,
                        raised |-> FALSE, resp |-> NoCall.resp]
            /\ requested' = Note(c, cache[c].value, now, FALSE)
            /\ UNCHANGED <<cache, netCalls, sleeps>>
       ELSE /\ sleeps' = sleeps + 1
            /\ netCalls' = netCalls + 1
            /\ last' = [card |-> c, result |-> ScryfallFetch(r).value,
                        hit |-> FALSE, raised |-> ScryfallFetch(r).raised,
                        resp |-> r]
            /\ requested' = Note(c, ScryfallFetch(r).value, now, TRUE)
            /\ cache' = IF ScryfallFetch(r).raised THEN cache
                        ELSE CacheStore(c, ScryfallFetch(r).value, cache, now)
    /\ UNCHANGED <<now, ticks>>

MaxCalls == 3
MaxTicks == 3

CacheCards == { SolRing, ManaCrypt }

EmptyMap == [n \in {} |-> n]

CacheInit ==
    /\ cache = EmptyMap
    /\ requested = EmptyMap
    /\ now = 0
    /\ ticks = 0
    /\ calls = 0
    /\ netCalls = 0
    /\ sleeps = 0
    /\ last = NoCall

GetScryfallImage ==
    /\ calls < MaxCalls
    /\ \E c \in CacheCards, r \in ScryfallResponses : Call(c, r)

\* Time passes between calls, half a ttl at a time
Tick ==
    /\ ticks < MaxTicks
    /\ ticks' = ticks + 1
    /\ now' = now + TTL \div 2
    /\ UNCHANGED <<cache, calls, netCalls, sleeps, last, requested>>

-----------------------------------------------------------------------------
(* Recommendation client: get_edhrec_data, lines 38-42 *)

NoneData  == [py_none |-> TRUE]
EmptyDict == EmptyMap

\* dict.get(k, default)
Get(d, k, default) == IF k \in DOMAIN d THEN d[k] ELSE default

View(n) == [name |-> n]

Doc(cls) == [container |-> [json_dict |-> [cardlists |-> cls]]]


\* EdhrecResult without the status test: any parseable body is returned
EdhrecResultAnyStatus(r) ==
    IF r.kind = "error" THEN NoneData
    ELSE IF r.body = NotJson THEN NoneData ELSE r.body

\* r.json() if r.status_code == 200 else None, inside try / except: return None
EdhrecResult(r) ==
    IF r.kind = "error" THEN NoneData
    ELSE IF r.status = 200
         THEN IF r.body = NotJson THEN NoneData ELSE r.body
         ELSE NoneData

\* `not data`
Falsy(d) == d = NoneData \/ DOMAIN d = {}

-----------------------------------------------------------------------------
(* Reconciliation: lines 93-94, 101-113 and 128-132 *)

CardLists(d) ==
    Get(Get(Get(d, "container", EmptyDict), "json_dict", EmptyDict), "cardlists", <<>>)

NamesOf(cl) ==
    [j \in 1..Len(Get(cl, "cardviews", <<>>)) |-> Get(cl, "cardviews", <<>>)[j].name]

EdhrecNames(cls) == UNION { RangeOf(NamesOf(cls[i])) : i \in 1..Len(cls) }

target_cats ==
    { "High Synergy Cards", "Top Cards", "Game Changes", "Creatures",
      "Instants", "Sorceries", "Utility Artifacts", "Enchantments",
      "Battles", "Planeswalkers", "Utility Lands", "Artifacts", "Lands" }

\* line 111
MissingOf(cl, deck) ==
    LET absent(n) == n \notin RangeOf(deck)
    IN  SelectSeq(NamesOf(cl), absent)


\* Tab1Visit without the `if missing:` test of line 112
Tab1VisitEmitsEmpty(out, cl, deck) ==
    IF Get(cl, "header", "") \in target_cats
    THEN Append(out, [header |-> Get(cl, "header", ""),
                      missing |-> MissingOf(cl, deck)])
    ELSE out

\* lines 109-114 for one category: the expanders shown so far, then this one
Tab1Visit(out, cl, deck) ==
    IF Get(cl, "header", "") \in target_cats /\ MissingOf(cl, deck) # <<>>
    THEN Append(out, [header |-> Get(cl, "header", ""),
                      missing |-> MissingOf(cl, deck)])
    ELSE out

\* line 128
MatchesOf(deck, names) ==
    LET recommended(c) == c \in names
    IN  Sorted(SelectSeq(deck, recommended))


\* UniqueOf without the `if c not in edhrec_names` filter
UniqueUnfiltered(deck, names) == Sorted(deck)

\* line 129
UniqueOf(deck, names) ==
    LET own(c) == c \notin names
    IN  Sorted(SelectSeq(deck, own))

\* f"{x*100:.1f}" of x = n/d, as tenths of a percent: nearest, ties to even
Tenths(n, d) ==
    LET q == (1000 * n) \div d
        r == (1000 * n) % d
    IN  IF 2 * r < d THEN q
        ELSE IF 2 * r > d THEN q + 1
        ELSE IF q % 2 = 0 THEN q ELSE q + 1

\* line 132: len(matches) / len(user_deck)
MatchScore(m, deck) == Tenths(Len(m), Len(deck))

-----------------------------------------------------------------------------
(* The script run, lines 77-142 *)

RECURSIVE JoinLines(_)
JoinLines(ls) ==
    IF ls = <<>> THEN <<>>
    ELSE IF Len(ls) = 1 THEN ls[1]
    ELSE ls[1] \o <<"\n">> \o JoinLines(Tail(ls))

\* str.split('\n')
RECURSIVE SplitLines(_)
SplitLines(s) ==
    IF \E i \in 1..Len(s) : s[i] = "\n"
    THEN LET i == CHOOSE i \in 1..Len(s) :
                      s[i] = "\n" /\ \A j \in 1..(i - 1) : s[j] # "\n"
         IN  <<Take(s, i - 1)>> \o SplitLines(Drop(s, i))
    ELSE <<s>>

\* line 80
UserDeck(raw) ==
    LET nonblank(l) == Strip(l) # <<>>
        ls == SelectSeq(SplitLines(raw), nonblank)
    IN  [i \in 1..Len(ls) |-> clean_card_name(ls[i])]


\* NotReady with `and` in place of `or`
NotReadyBoth(c, deck) == c = <<>> /\ deck = <<>>

\* line 83
NotReady(c, deck) == c = <<>> \/ deck = <<>>

MaxLines == 3

RawLines ==
    { <<"2", "x", " ">> \o SolRing \o <<" ", "(", "C", "1", "6", ")">>,
      SolRing,
      ArcaneSignet,
      <<" ", " ", "1", " ">> \o CommandTower
          \o <<" ", "(", "C", "M", "R", ")", " ", "*", "F", "*">>,
      <<" ", " ">> }

Commanders == { <<>>, <<"A", "t", "r", "a", "x", "a">> }

ScenarioDoc ==
    Doc(<< [header |-> "Artifacts", cardviews |-> <<View(SolRing), View(ManaCrypt)>>],
           [header |-> "Lands", cardviews |-> <<View(CommandTower)>>] >>)

EdhrecBodies ==
    { NotJson,
      EmptyDict,
      [container |-> [json_dict |-> EmptyDict]],
      Doc(<<>>),
      ScenarioDoc,
      Doc(<< [header |-> "Combos", cardviews |-> <<View(ManaCrypt)>>],
             [header |-> "Artifacts", cardviews |-> <<View(SolRing)>>] >>) }

EdhrecResponses ==
    { [kind |-> "error", status |-> 0, body |-> NotJson] }
      \cup [kind : {"http"}, status : {200, 404}, body : EdhrecBodies]

\* Scryfall answers seen during a run
RunResponses ==
    { [kind |-> "error", status |-> 0, body |-> NotJson],
      [kind |-> "http", status |-> 200, body |-> [image_uris |-> [normal |-> NormalUrl]]] }

RunInit ==
    /\ commander \in Commanders
    /\ decklist_raw \in { JoinLines(ls) : ls \in StringsUpTo(RawLines, MaxLines) }
    /\ user_deck = <<>>
    /\ pc = "sidebar"
    /\ resp = NoCall.resp
    /\ data = NoneData
    /\ cardlists = <<>>
    /\ edhrec_names = {}
    /\ idx = 0
    /\ shown = <<>>
    /\ all_missing = <<>>
    /\ grid = <<>>
    /\ after = "done"
    /\ matches = <<>>
    /\ unique = <<>>
    /\ score = 0
    /\ message = ""
    /\ imageCalls = 0

\* lines 77-80
Sidebar ==
    /\ pc = "sidebar"
    /\ user_deck' = UserDeck(decklist_raw)
    /\ pc' = "guard"
    /\ UNCHANGED <<commander, decklist_raw, resp, data, cardlists, edhrec_names,
                   idx, shown, all_missing, grid, after, matches, unique, score,
                   message, imageCalls, cacheVars>>

\* lines 83-85
AskForInput ==
    /\ pc = "guard"
    /\ NotReady(commander, user_deck)
    /\ message' = "Please enter your Commander and Decklist"
    /\ pc' = "done"
    /\ UNCHANGED <<commander, decklist_raw, user_deck, resp, data, cardlists,
                   edhrec_names, idx, shown, all_missing, grid, after, matches,
                   unique, score, imageCalls, cacheVars>>

\* lines 86-88
FetchEdhrec ==
    /\ pc = "guard"
    /\ ~NotReady(commander, user_deck)
    /\ \E r \in EdhrecResponses :
          /\ resp' = r
          /\ data' = EdhrecResult(r)
    /\ pc' = "fetched"
    /\ UNCHANGED <<commander, decklist_raw, user_deck, cardlists, edhrec_names,
                   idx, shown, all_missing, grid, after, matches, unique, score,
                   message, imageCalls, cacheVars>>

\* lines 90-91
NotFound ==
    /\ pc = "fetched"
    /\ Falsy(data)
    /\ message' = "Commander not found"
    /\ pc' = "done"
    /\ UNCHANGED <<commander, decklist_raw, user_deck, resp, data, cardlists,
                   edhrec_names, idx, shown, all_missing, grid, after, matches,
                   unique, score, imageCalls, cacheVars>>

\* lines 92-106
OpenTabs ==
    /\ pc = "fetched"
    /\ ~Falsy(data)
    /\ cardlists' = CardLists(data)
    /\ edhrec_names' = EdhrecNames(CardLists(data))
    /\ idx' = 1
    /\ all_missing' = <<>>
    /\ pc' = "tab1"
    /\ UNCHANGED <<commander, decklist_raw, user_deck, resp, data, shown, grid,
                   after, matches, unique, score, message, imageCalls, cacheVars>>

\* lines 108-119, one iteration of `for cl in cardlists`
Tab1Category ==
    /\ pc = "tab1"
    /\ idx <= Len(cardlists)
    /\ shown' = Tab1Visit(shown, cardlists[idx], user_deck)
    /\ idx' = idx + 1
    /\ IF shown' # shown
       THEN /\ all_missing' = all_missing \o MissingOf(cardlists[idx], user_deck)
            /\ \E toggle \in BOOLEAN :
                  IF toggle
                  THEN /\ grid' = MissingOf(cardlists[idx], user_deck)
                       /\ after' = "tab1"
                       /\ pc' = "grid"
                  ELSE UNCHANGED <<grid, after, pc>>
       ELSE UNCHANGED <<all_missing, grid, after, pc>>
    /\ UNCHANGED <<commander, decklist_raw, user_deck, resp, data, cardlists,
                   edhrec_names, matches, unique, score, message, imageCalls,
                   cacheVars>>

\* lines 126-138
Tab2Metrics ==
    /\ pc = "tab1"
    /\ idx > Len(cardlists)
    /\ matches' = MatchesOf(user_deck, edhrec_names)
    /\ unique' = UniqueOf(user_deck, edhrec_names)
    /\ IF Len(user_deck) = 0
       THEN /\ message' = "ZeroDivisionError"
            /\ pc' = "crashed"
            /\ UNCHANGED <<score, grid, after>>
       ELSE /\ score' = MatchScore(matches', user_deck)
            /\ grid' = matches'
            /\ after' = "unique"
            /\ pc' = "grid"
            /\ UNCHANGED message
    /\ UNCHANGED <<commander, decklist_raw, user_deck, resp, data, cardlists,
                   edhrec_names, idx, shown, all_missing, imageCalls, cacheVars>>

\* lines 59-62, one card of display_card_grid
GridCard ==
    /\ pc = "grid"
    /\ grid # <<>>
    /\ \E r \in RunResponses : Call(Head(grid), r)
    /\ imageCalls' = imageCalls + 1
    /\ grid' = Tail(grid)
    /\ UNCHANGED <<commander, decklist_raw, user_deck, pc, resp, data, cardlists,
                   edhrec_names, idx, shown, all_missing, after, matches, unique,
                   score, message>>

\* lines 49-51 and 67: display_card_grid returns
GridDone ==
    /\ pc = "grid"
    /\ grid = <<>>
    /\ pc' = after
    /\ UNCHANGED <<commander, decklist_raw, user_deck, resp, data, cardlists,
                   edhrec_names, idx, shown, all_missing, grid, after, matches,
                   unique, score, message, imageCalls, cacheVars>>

\* lines 140-142
Tab2Unique ==
    /\ pc = "unique"
    /\ grid' = unique
    /\ after' = "done"
    /\ pc' = "grid"
    /\ UNCHANGED <<commander, decklist_raw, user_deck, resp, data, cardlists,
                   edhrec_names, idx, shown, all_missing, matches, unique, score,
                   message, imageCalls, cacheVars>>

-----------------------------------------------------------------------------
(* Reconciliation as a function of a deck and a recommendation document *)

MaxDeck == 3
MaxCats == 2

DeckNames == { SolRing, ArcaneSignet, CommandTower }

Headers == { "Artifacts", "Lands", "Combos" }

ViewLists ==
    { <<>>,
      <<View(SolRing), View(ManaCrypt)>>,
      <<View(CommandTower)>>,
      <<View(ManaCrypt), View(CommandTower), View(SolRing)>> }

Categories ==
    [header : Headers, cardviews : ViewLists]
      \cup { [cardviews |-> <<View(ManaCrypt)>>], [header |-> "Lands"] }

RECURSIVE Tab1All(_, _, _)
Tab1All(out, cls, deck) ==
    IF cls = <<>> THEN out
    ELSE Tab1All(Tab1Visit(out, Head(cls), deck), Tail(cls), deck)

ReconInit ==
    /\ commander = <<"A", "t", "r", "a", "x", "a">>
    /\ decklist_raw = <<>>
    /\ user_deck \in StringsUpTo(DeckNames, MaxDeck) \ { <<>> }
    /\ pc = "fetched"
    /\ resp = NoCall.resp
    /\ data \in { Doc(cls) : cls \in StringsUpTo(Categories, MaxCats) }
    /\ cardlists = <<>>
    /\ edhrec_names = {}
    /\ idx = 0
    /\ shown = <<>>
    /\ all_missing = <<>>
    /\ grid = <<>>
    /\ after = "done"
    /\ matches = <<>>
    /\ unique = <<>>
    /\ score = 0
    /\ message = ""
    /\ imageCalls = 0

\* lines 93-113 with every category visited
ReconTab1 ==
    /\ pc = "fetched"
    /\ cardlists' = CardLists(data)
    /\ edhrec_names' = EdhrecNames(CardLists(data))
    /\ shown' = Tab1All(<<>>, CardLists(data), user_deck)
    /\ idx' = Len(CardLists(data)) + 1
    /\ pc' = "tab2"
    /\ UNCHANGED <<commander, decklist_raw, user_deck, resp, data, all_missing,
                   grid, after, matches, unique, score, message, imageCalls>>

\* lines 128-134
ReconTab2 ==
    /\ pc = "tab2"
    /\ matches' = MatchesOf(user_deck, edhrec_names)
    /\ unique' = UniqueOf(user_deck, edhrec_names)
    /\ score' = MatchScore(matches', user_deck)
    /\ pc' = "done"
    /\ UNCHANGED <<commander, decklist_raw, user_deck, resp, data, cardlists,
                   edhrec_names, idx, shown, all_missing, grid, after, message,
                   imageCalls>>

-----------------------------------------------------------------------------
(* Specifications *)

RunIdle ==
    /\ commander = <<>> /\ decklist_raw = <<>> /\ user_deck = <<>>
    /\ pc = "off" /\ resp = NoCall.resp /\ data = NoneData
    /\ cardlists = <<>> /\ edhrec_names = {} /\ idx = 0 /\ shown = <<>>
    /\ all_missing = <<>> /\ grid = <<>> /\ after = "off" /\ matches = <<>>
    /\ unique = <<>> /\ score = 0 /\ message = "" /\ imageCalls = 0

NormIdle == parts = <<>> /\ line = <<>> /\ cleaned = NotYet /\ normDone = TRUE
KeyIdle  == commander_name = <<>> /\ name = NotYet /\ keyDone = TRUE

NormNext == CleanCardName /\ UNCHANGED <<keyVars, cacheVars, runVars>>

NormStart == NormInit /\ KeyIdle /\ CacheInit /\ RunIdle

SpecNorm == NormStart /\ [][NormNext]_vars

KeyNext == BuildKey /\ UNCHANGED <<normVars, cacheVars, runVars>>

KeyStart == KeyInit /\ NormIdle /\ CacheInit /\ RunIdle

SpecKey == KeyStart /\ [][KeyNext]_vars

CacheNext ==
    \/ GetScryfallImage /\ UNCHANGED <<normVars, keyVars, runVars>>
    \/ Tick /\ UNCHANGED <<normVars, keyVars, runVars>>

CacheStart == CacheInit /\ NormIdle /\ KeyIdle /\ RunIdle

SpecCache == CacheStart /\ [][CacheNext]_vars

ReconNext ==
    \/ ReconTab1 /\ UNCHANGED <<normVars, keyVars, cacheVars>>
    \/ ReconTab2 /\ UNCHANGED <<normVars, keyVars, cacheVars>>

ReconStart == ReconInit /\ NormIdle /\ KeyIdle /\ CacheInit

SpecRecon == ReconStart /\ [][ReconNext]_vars

Init == RunInit /\ NormIdle /\ KeyIdle /\ CacheInit

Next ==
    \/ Sidebar /\ UNCHANGED <<normVars, keyVars>>
    \/ AskForInput /\ UNCHANGED <<normVars, keyVars>>
    \/ FetchEdhrec /\ UNCHANGED <<normVars, keyVars>>
    \/ NotFound /\ UNCHANGED <<normVars, keyVars>>
    \/ OpenTabs /\ UNCHANGED <<normVars, keyVars>>
    \/ Tab1Category /\ UNCHANGED <<normVars, keyVars>>
    \/ Tab2Metrics /\ UNCHANGED <<normVars, keyVars>>
    \/ GridCard /\ UNCHANGED <<normVars, keyVars>>
    \/ GridDone /\ UNCHANGED <<normVars, keyVars>>
    \/ Tab2Unique /\ UNCHANGED <<normVars, keyVars>>

Spec == Init /\ [][Next]_vars

-----------------------------------------------------------------------------
(* Properties *)

\* the k-th smallest element of a set of integers
Nth(S, k) == CHOOSE x \in S : Cardinality({ y \in S : y < x }) = k - 1

Allowed(cl, deck) ==
    /\ Get(cl, "header", "") \in target_cats
    /\ \E j \in 1..Len(NamesOf(cl)) : NamesOf(cl)[j] \notin RangeOf(deck)

\* C1: the missing-card output is, in document order, exactly the categories
\* whose header is in the allow-list and that recommend a card the deck lacks;
\* each lists exactly the category's names that are not in the deck, in the
\* category's own order.
C1_MissingByCategory ==
    pc \in {"tab2", "done"} =>
        LET cls  == CardLists(data)
            qual == { i \in 1..Len(cls) : Allowed(cls[i], user_deck) }
        IN  /\ Len(shown) = Cardinality(qual)
            /\ \A k \in 1..Len(shown) :
                  LET cl   == cls[Nth(qual, k)]
                      keep == { j \in 1..Len(NamesOf(cl)) :
                                    NamesOf(cl)[j] \notin RangeOf(user_deck) }
                  IN  /\ shown[k].header = cl.header
                      /\ Len(shown[k].missing) = Cardinality(keep)
                      /\ \A m \in 1..Len(shown[k].missing) :
                            shown[k].missing[m] = NamesOf(cl)[Nth(keep, m)]

C1_Witness ==
    /\ pc = "tab2"
    /\ Len(cardlists) = 2
    /\ Get(cardlists[1], "header", "") \in target_cats
    /\ NamesOf(cardlists[1]) # <<>>
    /\ Len(shown) = 1
    /\ shown[1].header = Get(cardlists[2], "header", "")
    /\ shown[1].missing # <<>>
    /\ Len(shown[1].missing) < Len(NamesOf(cardlists[2]))

Distinct(deck) == RangeOf(deck)

\* C2: the match score is the number of distinct deck names that are
\* recommended, divided by the number of distinct deck names.
C2_ScoreOverDistinctNames ==
    pc = "done" =>
        score = Tenths(Cardinality(Distinct(user_deck) \cap edhrec_names),
                       Cardinality(Distinct(user_deck)))

\* C3: matches holds each recommended deck name exactly once, nothing else,
\* in ascending order.
C3_MatchesOncePerName ==
    pc = "done" =>
        /\ RangeOf(matches) = Distinct(user_deck) \cap edhrec_names
        /\ \A i \in 1..(Len(matches) - 1) : StrLess(matches[i], matches[i + 1])

\* C4: the names in matches and the names in unique picks are disjoint and
\* together are the distinct names of the deck.
C4_Partition ==
    pc = "done" =>
        /\ RangeOf(matches) \cap RangeOf(unique) = {}
        /\ RangeOf(matches) \cup RangeOf(unique) = Distinct(user_deck)

C4_Witness ==
    /\ pc = "done"
    /\ matches # <<>>
    /\ unique # <<>>
    /\ Cardinality(Distinct(user_deck)) < Len(user_deck)

\* C5: a line built as leading whitespace, quantity token, card name,
\* parenthetical and trailing text is cleaned to exactly the card name.
C5_CleanIsCardName == normDone => cleaned = parts.card

\* C6: when the commander lookup ends in a non-200 status, a timeout or a
\* transport / parse failure, the run reports "Commander not found" and makes
\* no get_scryfall_image call.
LookupFailed ==
    \/ resp.kind = "error"
    \/ resp.kind = "http" /\ (resp.status # 200 \/ resp.body = NotJson)

C6_NotFoundMakesNoImageCall ==
    LookupFailed =>
        /\ imageCalls = 0
        /\ calls = 0
        /\ pc \in {"fetched", "done"}
        /\ (pc = "done" => message = "Commander not found")

C6_Witness ==
    /\ pc = "done"
    /\ resp.kind = "http"
    /\ resp.status = 404
    /\ resp.body = ScenarioDoc
    /\ message = "Commander not found"

IsCallOf(c) == calls' = calls + 1 /\ last'.card = c

\* C7 as stated: a call for a name that was asked for less than the ttl ago
\* returns what that earlier call returned, without request or delay.
C7_HitAfterAnyRecentCall ==
    [][\A c \in CacheCards :
          (IsCallOf(c) /\ c \in DOMAIN requested /\ now - requested[c].at < TTL)
              => /\ last'.result = requested[c].result
                 /\ netCalls' = netCalls
                 /\ sleeps' = sleeps]_vars

\* C7 amended: a call for a name whose result was fetched less than the ttl
\* ago returns that result, without request or delay, whichever branch
\* (success, non-200, failure) produced it.
C7_HitAfterRecentFetch ==
    [][\A c \in CacheCards :
          (IsCallOf(c) /\ c \in DOMAIN requested
                       /\ now - requested[c].fetchedAt < TTL)
              => /\ last'.result = requested[c].result
                 /\ last'.hit
                 /\ netCalls' = netCalls
                 /\ sleeps' = sleeps]_vars

C7_Witness ==
    /\ last.hit
    /\ last.result = None
    /\ now > requested[last.card].fetchedAt
    /\ netCalls < calls

Fetched == last.card # <<>> /\ ~last.hit

ParseFails(b) ==
    \/ b = NotJson
    \/ "image_uris" \in DOMAIN b /\ "normal" \notin DOMAIN b.image_uris
    \/ /\ "image_uris" \notin DOMAIN b
       /\ "card_faces" \in DOMAIN b
       /\ \/ b.card_faces = <<>>
          \/ "image_uris" \notin DOMAIN b.card_faces[1]

TransportOrParseFailure(r) ==
    r.kind = "error" \/ (r.kind = "http" /\ r.status = 200 /\ ParseFails(r.body))

RECURSIVE HyphenateRuns(_)
HyphenateRuns(s) ==
    IF s = <<>> THEN <<>>
    ELSE IF Head(s) \in Whitespace
         THEN <<"-">> \o HyphenateRuns(LStrip(s))
         ELSE <<Head(s)>> \o HyphenateRuns(Tail(s))

\* C9: the key is the lowercased name without the characters other than
\* lowercase letters, digits, whitespace and hyphens, every whitespace run
\* replaced by one hyphen; it holds only lowercase letters, digits, hyphens.
C9_KeyHyphenatesRuns ==
    keyDone =>
        /\ name = HyphenateRuns(SubNonKey(LowerStr(commander_name)))
        /\ RangeOf(name) \subseteq Lower \cup Digits \cup {"-"}

\* C10: the fetch and the score are reached only with a non-empty commander
\* and a deck of at least one entry; the division never has a zero divisor.
C10_GuardedDivision ==
    /\ pc # "crashed"
    /\ (pc \in {"fetched", "tab1", "grid", "unique"} \/ resp.kind # "none")
          => (commander # <<>> /\ Len(user_deck) >= 1)

C10_Witness ==
    /\ pc = "done"
    /\ score > 0
    /\ Len(user_deck) >= 1
    /\ Len(user_deck) < Len(SplitLines(decklist_raw))

=============================================================================
